---- MODULE Spec2Model ----
(***************************************************************************)
(* The Ginga block cipher of src/ginga.go: a 128-bit block under a 256-bit *)
(* key, 16 rounds of add-rotate-xor on four 32-bit words, the functional   *)
(* Encrypt/Decrypt with their size checks, and the cipher.Block object     *)
(* NewCipher returns.                                                      *)
(*                                                                         *)
(* A uint32 is held as the pair <<hi, lo>> of its 16-bit halves (its value *)
(* is hi * 2^16 + lo): the model checker's integers are 32-bit signed, so  *)
(* the halves carry the arithmetic modulo 2^32 that Go does on the word.   *)
(* A []byte is a sequence of integers in 0..255; Go's index i is the       *)
(* sequence's index i + 1.                                                 *)
(***************************************************************************)
EXTENDS Integers, Sequences, FiniteSets, TLC

VARIABLES
    heap,       \* the byte arrays behind the slices: buffer name -> bytes
    cipher,     \* the *gingaCipher NewCipher returned: its key field names a buffer
    newErr,     \* the error NewCipher returned
    keyAtNew,   \* the bytes the key argument held when NewCipher ran
    pc,         \* per goroutine: where it is in a cipher.Block method call
    call,       \* per goroutine: the call's op, buffers and locals
    args,       \* the arguments of a call of a package-level function
    rets        \* the values those calls returned, in order

objVars == <<heap, cipher, newErr, keyAtNew, pc, call>>
fnVars == <<args, rets>>
vars == <<heap, cipher, newErr, keyAtNew, pc, call, args, rets>>

(***************************************************************************)
(* Program constants.                                                      *)
(***************************************************************************)
BlockSize == 16
Rounds == 16
KeySize == 32

(***************************************************************************)
(* 32-bit words.                                                           *)
(***************************************************************************)
Half == 256 * 256

RECURSIVE XorBits(_, _, _)
XorBits(a, b, n) ==
    IF n = 0 THEN 0
    ELSE (((a % 2) + (b % 2)) % 2) + (2 * XorBits(a \div 2, b \div 2, n - 1))

\* The exclusive or of two 4-bit values, tabulated once.
Xor4 == [a \in 0..15 |-> [b \in 0..15 |-> XorBits(a, b, 4)]]

Xor16(a, b) ==
      Xor4[a % 16][b % 16]
    + (16 * Xor4[(a \div 16) % 16][(b \div 16) % 16])
    + (256 * Xor4[(a \div 256) % 16][(b \div 256) % 16])
    + (4096 * Xor4[a \div 4096][b \div 4096])

\* 2^n for n in 0..16
Pow2Table == <<1, 2, 4, 8, 16, 32, 64, 128, 256, 512, 1024, 2048, 4096, 8192,
               16384, 32768, 65536>>
Pow2(n) == Pow2Table[n + 1]

\* uint32(n) of a non-negative int n below 2^31
ToWord(n) == <<n \div Half, n % Half>>

\* x ^ y
xor32(x, y) == <<Xor16(x[1], y[1]), Xor16(x[2], y[2])>>

\* x + y modulo 2^32: the low halves' carry goes into the high halves, whose
\* own carry is dropped
add32(x, y) ==
    LET lo == x[2] + y[2]
        hi == x[1] + y[1] + (lo \div Half)
    IN <<hi % Half, lo % Half>>

\* x - y modulo 2^32
sub32(x, y) ==
    LET lo == x[2] - y[2]
        hi == (x[1] - y[1]) - (IF lo < 0 THEN 1 ELSE 0)
    IN <<hi % Half, lo % Half>>

\* A rotation to the left by n bits, 0 <= n < 16
RotlHalves(x, n) ==
    <<((x[1] % Pow2(16 - n)) * Pow2(n)) + (x[2] \div Pow2(16 - n)),
      ((x[2] % Pow2(16 - n)) * Pow2(n)) + (x[1] \div Pow2(16 - n))>>

\* bits.RotateLeft32(x, n): by n mod 32 bits; a negative n rotates right
rotl32(x, n) ==
    LET m == n % 32
    IN IF m < 16 THEN RotlHalves(x, m) ELSE RotlHalves(<<x[2], x[1]>>, m - 16)

rotr32(x, n) == rotl32(x, 0 - n)

ConfuseXor == <<42405, 42405>>    \* 0xA5A5A5A5
ConfuseAdd == <<15420, 15420>>    \* 0x3C3C3C3C

confuse32(x) ==
    LET a == xor32(x, ConfuseXor)
        b == add32(a, ConfuseAdd)
    IN rotl32(b, 7)

deconfuse32_wrongRotation(x) ==
    LET a == rotl32(x, 7)
        b == sub32(a, ConfuseAdd)
    IN xor32(b, ConfuseXor)

deconfuse32(x) ==
    LET a == rotr32(x, 7)
        b == sub32(a, ConfuseAdd)
    IN xor32(b, ConfuseXor)

\* Go's r & 31 of a non-negative r
And31(r) == r % 32
And7(r) == r % 8

round32(x, k, r) ==
    LET a == add32(x, k)
        b == confuse32(a)
        c == rotl32(b, And31(r + 3))
        d == xor32(c, k)
    IN rotl32(d, And31(r + 5))

invRound32_swappedRotations(x, k, r) ==
    LET a == rotr32(x, And31(r + 3))
        b == xor32(a, k)
        c == rotr32(b, And31(r + 5))
        d == deconfuse32(c)
    IN sub32(d, k)

invRound32(x, k, r) ==
    LET a == rotr32(x, And31(r + 5))
        b == xor32(a, k)
        c == rotr32(b, And31(r + 3))
        d == deconfuse32(c)
    IN sub32(d, k)

\* k is the [8]uint32 of the key, i the word's index 0..3
subKey32_mask3(k, round, i) ==
    LET base == k[((i + round) % 4) + 1]
    IN rotl32(xor32(base, ToWord((i * 73) + (round * 91))), And31(round + i))

subKey32(k, round, i) ==
    LET base == k[And7(i + round) + 1]
    IN rotl32(xor32(base, ToWord((i * 73) + (round * 91))), And31(round + i))

\* The four updates in the order of the code: state[3] reads the state[0] the
\* first update wrote
mixState32(state) ==
    LET s0 == xor32(state[1], rotl32(state[2], 5))
        s1 == xor32(state[2], rotl32(state[3], 11))
        s2 == xor32(state[3], rotl32(state[4], 17))
        s3 == xor32(state[4], rotl32(s0, 23))
    IN <<s0, s1, s2, s3>>

invMixState32_forwardOrder(state) ==
    LET s0 == xor32(state[1], rotl32(state[2], 5))
        s1 == xor32(state[2], rotl32(state[3], 11))
        s2 == xor32(state[3], rotl32(state[4], 17))
        s3 == xor32(state[4], rotl32(s0, 23))
    IN <<s0, s1, s2, s3>>

invMixState32(state) ==
    LET s3 == xor32(state[4], rotl32(state[1], 23))
        s2 == xor32(state[3], rotl32(s3, 17))
        s1 == xor32(state[2], rotl32(s2, 11))
        s0 == xor32(state[1], rotl32(s1, 5))
    IN <<s0, s1, s2, s3>>

(***************************************************************************)
(* Bytes and words: encoding/binary's LittleEndian.                        *)
(***************************************************************************)
\* binary.LittleEndian.Uint32(b) of a 4-byte b
Uint32(b) == <<b[3] + (256 * b[4]), b[1] + (256 * b[2])>>

\* binary.LittleEndian.PutUint32(out, w): the four bytes written
PutUint32(w) == <<w[2] % 256, w[2] \div 256, w[1] % 256, w[1] \div 256>>

\* The loop c[i] = Uint32(b[i*4 : (i+1)*4]) for i < n
RECURSIVE LoadWords(_, _)
LoadWords(b, n) ==
    IF n = 0 THEN <<>>
    ELSE Append(LoadWords(b, n - 1), Uint32(SubSeq(b, (4 * (n - 1)) + 1, 4 * n)))

\* out := make([]byte, BlockSize) and the loop PutUint32(out[i*4:(i+1)*4], c[i])
StoreWords(c) == PutUint32(c[1]) \o PutUint32(c[2]) \o PutUint32(c[3]) \o PutUint32(c[4])

(***************************************************************************)
(* Encrypt and Decrypt.                                                    *)
(***************************************************************************)
Nil == <<>>
NoErr == "nil"
ErrPlaintext == "ginga: plaintext must be 16 bytes"
ErrCiphertext == "ginga: ciphertext must be 16 bytes"
ErrKey == "ginga: key must be 32 bytes (256 bits)"
ErrNewKey == "ginga: invalid key size (must be 32 bytes)"

\* One pass of Encrypt's loop over r: the four words, then the mix
EncRound(c, k, r) ==
    mixState32(<<round32(c[1], subKey32(k, r, 0), r),
                 round32(c[2], subKey32(k, r, 1), r),
                 round32(c[3], subKey32(k, r, 2), r),
                 round32(c[4], subKey32(k, r, 3), r)>>)

DecRound_mixLast(p, k, r) ==
    invMixState32(<<invRound32(p[1], subKey32(k, r, 0), r),
                    invRound32(p[2], subKey32(k, r, 1), r),
                    invRound32(p[3], subKey32(k, r, 2), r),
                    invRound32(p[4], subKey32(k, r, 3), r)>>)

\* One pass of Decrypt's loop over r: the inverse mix, then the four words
DecRound(p, k, r) ==
    LET m == invMixState32(p)
    IN <<invRound32(m[1], subKey32(k, r, 0), r),
         invRound32(m[2], subKey32(k, r, 1), r),
         invRound32(m[3], subKey32(k, r, 2), r),
         invRound32(m[4], subKey32(k, r, 3), r)>>

\* for r := 0; r < Rounds; r++, from round r on. Each round's state is
\* evaluated (Len) before the next round is entered.
RECURSIVE EncRounds(_, _, _)
EncRounds(c, k, r) ==
    IF r >= Rounds THEN c
    ELSE LET n == EncRound(c, k, r)
         IN IF Len(n) = 4 THEN EncRounds(n, k, r + 1) ELSE n

\* for r := Rounds - 1; r >= 0; r--, from round r down
RECURSIVE DecRounds(_, _, _)
DecRounds(p, k, r) ==
    IF r < 0 THEN p
    ELSE LET n == DecRound(p, k, r)
         IN IF Len(n) = 4 THEN DecRounds(n, k, r - 1) ELSE n

Encrypt_sizeAtLeast(plain, key) ==
    IF Len(plain) < BlockSize
    THEN [out |-> Nil, err |-> ErrPlaintext]
    ELSE IF Len(key) < KeySize
    THEN [out |-> Nil, err |-> ErrKey]
    ELSE [out |-> StoreWords(EncRounds(LoadWords(plain, 4), LoadWords(key, 8), 0)),
          err |-> NoErr]

Encrypt(plain, key) ==
    IF Len(plain) # BlockSize
    THEN [out |-> Nil, err |-> ErrPlaintext]
    ELSE IF Len(key) # KeySize
    THEN [out |-> Nil, err |-> ErrKey]
    ELSE [out |-> StoreWords(EncRounds(LoadWords(plain, 4), LoadWords(key, 8), 0)),
          err |-> NoErr]

Decrypt(ciphertext, key) ==
    IF Len(ciphertext) # BlockSize
    THEN [out |-> Nil, err |-> ErrCiphertext]
    ELSE IF Len(key) # KeySize
    THEN [out |-> Nil, err |-> ErrKey]
    ELSE [out |-> StoreWords(DecRounds(LoadWords(ciphertext, 4), LoadWords(key, 8),
                                       Rounds - 1)),
          err |-> NoErr]

(***************************************************************************)
(* The cipher.Block object.  A slice is the name of the byte array behind  *)
(* it; heap maps the names in use to their bytes.                          *)
(***************************************************************************)
NoCipher == [key |-> "none"]        \* the nil cipher.Block
NoPanic == "none"
PanicNotFullBlock == "ginga: input not full block"
PanicEncryptFailed == "ginga: encryption failed"
PanicDecryptFailed == "ginga: decryption failed"

Min(a, b) == IF a < b THEN a ELSE b

\* append([]byte(nil), key...): a new array holding key's bytes
AppendToNil(h, name, key) ==
    [n \in (DOMAIN h) \cup {name} |-> IF n = name THEN h[key] ELSE h[n]]

NewCipher_keepsCallerSlice(h, key) ==
    IF Len(h[key]) # KeySize
    THEN [cipher |-> NoCipher, err |-> ErrNewKey, heap |-> h]
    ELSE [cipher |-> [key |-> key], err |-> NoErr, heap |-> h]

\* NewCipher(key) on the heap h: the object, the error, the heap afterwards
NewCipher(h, key) ==
    IF Len(h[key]) # KeySize
    THEN [cipher |-> NoCipher, err |-> ErrNewKey, heap |-> h]
    ELSE [cipher |-> [key |-> "ckey"], err |-> NoErr,
          heap |-> AppendToNil(h, "ckey", key)]

gingaCipher_BlockSize(c) == BlockSize

\* copy(dst, out): dst's bytes afterwards; min(len(dst), len(out)) are copied
CopyBytes(dst, out) ==
    [i \in 1..Len(dst) |-> IF i <= Min(Len(dst), Len(out)) THEN out[i] ELSE dst[i]]

gingaCipher_Encrypt_lastBlock(h, c, dst, src) ==
    IF Len(h[src]) < BlockSize \/ Len(h[dst]) < BlockSize
    THEN [panic |-> PanicNotFullBlock, out |-> Nil]
    ELSE LET r == Encrypt(SubSeq(h[src], (Len(h[src]) - BlockSize) + 1, Len(h[src])),
                          h[c.key])
         IN IF r.err # NoErr
            THEN [panic |-> PanicEncryptFailed, out |-> Nil]
            ELSE [panic |-> NoPanic, out |-> r.out]

gingaCipher_Encrypt_callsDecrypt(h, c, dst, src) ==
    IF Len(h[src]) < BlockSize \/ Len(h[dst]) < BlockSize
    THEN [panic |-> PanicNotFullBlock, out |-> Nil]
    ELSE LET r == Decrypt(SubSeq(h[src], 1, BlockSize), h[c.key])
         IN IF r.err # NoErr
            THEN [panic |-> PanicEncryptFailed, out |-> Nil]
            ELSE [panic |-> NoPanic, out |-> r.out]

gingaCipher_Encrypt_srcCheckOnly(h, c, dst, src) ==
    IF Len(h[src]) < BlockSize
    THEN [panic |-> PanicNotFullBlock, out |-> Nil]
    ELSE LET r == Encrypt(SubSeq(h[src], 1, BlockSize), h[c.key])
         IN IF r.err # NoErr
            THEN [panic |-> PanicEncryptFailed, out |-> Nil]
            ELSE [panic |-> NoPanic, out |-> r.out]

\* (c *gingaCipher).Encrypt(dst, src) up to its copy: the panic it raises, or
\* the block out it is about to copy
gingaCipher_Encrypt(h, c, dst, src) ==
    IF Len(h[src]) < BlockSize \/ Len(h[dst]) < BlockSize
    THEN [panic |-> PanicNotFullBlock, out |-> Nil]
    ELSE LET r == Encrypt(SubSeq(h[src], 1, BlockSize), h[c.key])
         IN IF r.err # NoErr
            THEN [panic |-> PanicEncryptFailed, out |-> Nil]
            ELSE [panic |-> NoPanic, out |-> r.out]

\* (c *gingaCipher).Decrypt(dst, src) up to its copy
gingaCipher_Decrypt(h, c, dst, src) ==
    IF Len(h[src]) < BlockSize \/ Len(h[dst]) < BlockSize
    THEN [panic |-> PanicNotFullBlock, out |-> Nil]
    ELSE LET r == Decrypt(SubSeq(h[src], 1, BlockSize), h[c.key])
         IN IF r.err # NoErr
            THEN [panic |-> PanicDecryptFailed, out |-> Nil]
            ELSE [panic |-> NoPanic, out |-> r.out]

(***************************************************************************)
(* Inputs.  The i-th sample half-word: the edge values first, then a       *)
(* multiplicative sequence that spreads over the 16 bits.                  *)
(***************************************************************************)
NumHalves == 24         \* half-words a confuse32 input is drawn from
NumRoundHalves == 7     \* half-words a round32 input or subkey is drawn from
NumMixWords == 6        \* words a mixState32 state is drawn from

HalfAt(i) ==
    CASE i = 0 -> 0
      [] i = 1 -> 65535
      [] i = 2 -> 32768
      [] i = 3 -> 23130         \* 0x5A5A: confuse32's addition carries
      [] OTHER -> (i * 40503) % Half

WordAt(i) == <<HalfAt(i + 1), HalfAt(i)>>

HalfSamples(n) == {HalfAt(i) : i \in 0..(n - 1)}
WordSamples(n) == {<<h, l>> : h \in HalfSamples(n), l \in HalfSamples(n)}

\* The variables of the cipher.Block object, where no object is in play
ObjUnused ==
    /\ heap = <<>>
    /\ cipher = NoCipher
    /\ newErr = NoErr
    /\ keyAtNew = Nil
    /\ pc = <<>>
    /\ call = <<>>

(***************************************************************************)
(* confuse32 and deconfuse32 on a word.                                    *)
(***************************************************************************)
InitConfuse ==
    /\ ObjUnused
    /\ args \in {[x |-> w] : w \in WordSamples(NumHalves)}
    /\ rets = <<>>

DoConfuse ==
    /\ Len(rets) = 0
    /\ rets' = <<confuse32(args.x)>>
    /\ UNCHANGED <<args, objVars>>

DoDeconfuse ==
    /\ Len(rets) = 1
    /\ rets' = Append(rets, deconfuse32(rets[1]))
    /\ UNCHANGED <<args, objVars>>

NextConfuse == DoConfuse \/ DoDeconfuse
SpecConfuse == InitConfuse /\ [][NextConfuse]_vars

(***************************************************************************)
(* round32 and invRound32 on a word, a subkey and a round.                 *)
(***************************************************************************)
InitRound ==
    /\ ObjUnused
    /\ args \in {[x |-> w, k |-> sk, r |-> rr] :
                    w \in WordSamples(NumRoundHalves),
                    sk \in WordSamples(NumRoundHalves),
                    rr \in 0..(Rounds - 1)}
    /\ rets = <<>>

DoRound ==
    /\ Len(rets) = 0
    /\ rets' = <<round32(args.x, args.k, args.r)>>
    /\ UNCHANGED <<args, objVars>>

DoInvRound ==
    /\ Len(rets) = 1
    /\ rets' = Append(rets, invRound32(rets[1], args.k, args.r))
    /\ UNCHANGED <<args, objVars>>

NextRound == DoRound \/ DoInvRound
SpecRound == InitRound /\ [][NextRound]_vars

(***************************************************************************)
(* mixState32 and invMixState32 on a state of four words.                  *)
(***************************************************************************)
MixWords == {WordAt(i) : i \in 0..(NumMixWords - 1)}

InitMix ==
    /\ ObjUnused
    /\ args \in {[state |-> <<a, b, c, d>>] :
                    a \in MixWords, b \in MixWords, c \in MixWords, d \in MixWords}
    /\ rets = <<>>

DoMix ==
    /\ Len(rets) = 0
    /\ rets' = <<mixState32(args.state)>>
    /\ UNCHANGED <<args, objVars>>

DoInvMix ==
    /\ Len(rets) = 1
    /\ rets' = Append(rets, invMixState32(rets[1]))
    /\ UNCHANGED <<args, objVars>>

NextMix == DoMix \/ DoInvMix
SpecMix == InitMix /\ [][NextMix]_vars

(***************************************************************************)
(* Claims about the word-level functions.                                  *)
(***************************************************************************)

\* C10: deconfuse32(confuse32(x)) = x for every word x, confuse32 being the
\* xor with 0xA5A5A5A5, the addition of 0x3C3C3C3C modulo 2^32 and the
\* rotation left by 7, whatever the key and the round (it reads neither).
C10_ConfuseInverts ==
    /\ Len(rets) >= 1 =>
          rets[1] = rotl32(add32(xor32(args.x, <<42405, 42405>>), <<15420, 15420>>), 7)
    /\ Len(rets) = 2 => rets[2] = args.x

\* C10's case: a word whose addition carries out of the low half and out of
\* the word, confused to another word and brought back.
C10_Witness ==
    /\ Len(rets) = 2
    /\ args.x = <<23130, 23130>>
    /\ rets[1] # args.x

\* C8: invRound32(round32(x, k, r), k, r) = x for every word x, subkey k and
\* round r in 0..15, round32 being: add k, confuse, rotate left by
\* (r + 3) mod 32, xor k, rotate left by (r + 5) mod 32.
C8_RoundInverts ==
    /\ Len(rets) >= 1 =>
          rets[1] = rotl32(xor32(rotl32(confuse32(add32(args.x, args.k)),
                                        (args.r + 3) % 32),
                                 args.k),
                           (args.r + 5) % 32)
    /\ Len(rets) = 2 => rets[2] = args.x

\* C8's case: the last round, where the two rotations are by 18 and 20 bits,
\* on a word and a subkey whose sum wraps around.
C8_Witness ==
    /\ Len(rets) = 2
    /\ args.r = Rounds - 1
    /\ args.x = <<65535, 65535>>
    /\ args.k = <<32768, 65535>>
    /\ rets[1] # args.x

\* C9: invMixState32 after mixState32 restores every 4-word state; mixState32
\* makes its four updates one after the other, state[3] taking the state[0]
\* already updated, and invMixState32 makes them in the reverse order.
C9_MixInverts ==
    /\ Len(rets) >= 1 =>
          /\ rets[1][1] = xor32(args.state[1], rotl32(args.state[2], 5))
          /\ rets[1][2] = xor32(args.state[2], rotl32(args.state[3], 11))
          /\ rets[1][3] = xor32(args.state[3], rotl32(args.state[4], 17))
          /\ rets[1][4] = xor32(args.state[4], rotl32(rets[1][1], 23))
    /\ Len(rets) = 2 => rets[2] = args.state

\* C9's case: a state whose state[0] the mix changes, so that the update of
\* state[3] differs from the one the old state[0] would give.
C9_Witness ==
    /\ Len(rets) = 2
    /\ rets[1][1] # args.state[1]
    /\ rets[1][4] # xor32(args.state[4], rotl32(args.state[1], 23))
    /\ rets[2] = args.state

(***************************************************************************)
(* The package-level Encrypt and Decrypt, called by one caller on a data   *)
(* slice and a key slice of any length.  A call takes the caller's data or *)
(* the bytes the call before it returned.                                  *)
(***************************************************************************)
NumBlocks == 6          \* 16-byte blocks the data is drawn from
NumKeys == 5            \* 32-byte keys the key is drawn from
MaxCalls == 2           \* calls the caller makes in a row

\* The i-th sample of n bytes: all 0x00, all 0xFF, then bytes that differ
\* from one index to the next
SampleBytes(i, n) ==
    [j \in 1..n |-> CASE i = 0 -> 0
                      [] i = 1 -> 255
                      [] OTHER -> ((i * 151) + (j * 89) + (i * j * 7)) % 256]

BlockSamples(n) == {SampleBytes(i, BlockSize) : i \in 0..(n - 1)}
KeySamples(n) == {SampleBytes(i, KeySize) : i \in 0..(n - 1)}

\* Slices of a wrong length: one byte short, one byte long, empty
WrongSizeData == {SampleBytes(2, n) : n \in {0, BlockSize - 1, BlockSize + 1}}
WrongSizeKeys == {SampleBytes(3, n) : n \in {KeySize - 1, KeySize + 1}}

InitFn ==
    /\ ObjUnused
    /\ args \in {[data |-> d, key |-> k] :
                    d \in BlockSamples(NumBlocks) \cup WrongSizeData,
                    k \in KeySamples(NumKeys) \cup WrongSizeKeys}
    /\ rets = <<>>

FnInput(useLast) == IF useLast THEN rets[Len(rets)].out ELSE args.data

FnEncrypt ==
    \E useLast \in BOOLEAN :
        /\ Len(rets) < MaxCalls
        /\ useLast => Len(rets) > 0
        /\ \E r \in {Encrypt(FnInput(useLast), args.key)} :
              rets' = Append(rets, [op |-> "Encrypt", in |-> FnInput(useLast),
                                    out |-> r.out, err |-> r.err])
        /\ UNCHANGED <<args, objVars>>

FnDecrypt ==
    \E useLast \in BOOLEAN :
        /\ Len(rets) < MaxCalls
        /\ useLast => Len(rets) > 0
        /\ \E r \in {Decrypt(FnInput(useLast), args.key)} :
              rets' = Append(rets, [op |-> "Decrypt", in |-> FnInput(useLast),
                                    out |-> r.out, err |-> r.err])
        /\ UNCHANGED <<args, objVars>>

NextFn == FnEncrypt \/ FnDecrypt
SpecFn == InitFn /\ [][NextFn]_vars

\* C1: for a 16-byte block P and a 32-byte key K, Encrypt(P, K) succeeds with
\* a 16-byte ciphertext C, and Decrypt(C, K) succeeds and returns P.
C1_RoundTrip ==
    \A i \in 1..Len(rets) :
        (/\ rets[i].op = "Encrypt"
         /\ Len(rets[i].in) = 16
         /\ Len(args.key) = 32)
        => /\ rets[i].err = NoErr
           /\ Len(rets[i].out) = 16
           /\ (/\ i < Len(rets)
               /\ rets[i + 1].op = "Decrypt"
               /\ rets[i + 1].in = rets[i].out)
              => /\ rets[i + 1].err = NoErr
                 /\ rets[i + 1].out = rets[i].in

\* C1's case: a block of sixteen different bytes encrypted to other bytes and
\* decrypted back under a key of thirty-two bytes that are not all alike.
C1_Witness ==
    /\ Len(rets) = 2
    /\ args.data = SampleBytes(2, 16)
    /\ args.key = SampleBytes(2, 32)
    /\ rets[1].op = "Encrypt"
    /\ rets[1].in = args.data
    /\ rets[1].out # args.data
    /\ rets[2].op = "Decrypt"
    /\ rets[2].in = rets[1].out
    /\ rets[2].out = args.data

SizeErrors == {ErrPlaintext, ErrCiphertext, ErrKey}

\* C2: Encrypt and Decrypt return a size error and a nil result whenever the
\* data is not exactly 16 bytes or the key not exactly 32 bytes, and a 16-byte
\* result and no error whenever both lengths are exact.
C2_SizeChecked ==
    \A i \in 1..Len(rets) :
        IF Len(rets[i].in) = 16 /\ Len(args.key) = 32
        THEN rets[i].err = NoErr /\ Len(rets[i].out) = 16
        ELSE rets[i].err \in SizeErrors /\ rets[i].out = Nil

\* C2's case: a 17-byte data slice under a 32-byte key, refused by Encrypt and
\* then by Decrypt.
C2_Witness ==
    /\ Len(rets) = 2
    /\ Len(args.data) = 17
    /\ Len(args.key) = 32
    /\ rets[1].op = "Encrypt"
    /\ rets[1].err = ErrPlaintext
    /\ rets[2].op = "Decrypt"
    /\ rets[2].in = args.data
    /\ rets[2].err = ErrCiphertext

(***************************************************************************)
(* Encrypt of one block under a key and under the key with one bit flipped.*)
(***************************************************************************)
NumFlipBlocks == 2      \* blocks the plaintext is drawn from
NumFlipKeys == 3        \* keys the first key is drawn from

\* key with bit number bit (0..255, bit 0 the lowest bit of key[0]) inverted
FlipBit(key, bit) ==
    [key EXCEPT ![(bit \div 8) + 1] = Xor16(@, Pow2(bit % 8))]

InitKeyBit ==
    /\ ObjUnused
    /\ args \in {[plain |-> d, key |-> k, bit |-> b] :
                    d \in BlockSamples(NumFlipBlocks),
                    k \in KeySamples(NumFlipKeys),
                    b \in 0..((8 * KeySize) - 1)}
    /\ rets = <<>>

EncryptUnderKey ==
    /\ Len(rets) = 0
    /\ rets' = <<Encrypt(args.plain, args.key)>>
    /\ UNCHANGED <<args, objVars>>

EncryptUnderFlipped ==
    /\ Len(rets) = 1
    /\ rets' = Append(rets, Encrypt(args.plain, FlipBit(args.key, args.bit)))
    /\ UNCHANGED <<args, objVars>>

NextKeyBit == EncryptUnderKey \/ EncryptUnderFlipped
SpecKeyBit == InitKeyBit /\ [][NextKeyBit]_vars

\* C7: for a 16-byte plaintext P and two 32-byte keys that differ in exactly
\* one bit, Encrypt(P, K1) and Encrypt(P, K2) are not the same ciphertext.
C7_KeyBitChangesCiphertext ==
    Len(rets) = 2 =>
        /\ rets[1].err = NoErr
        /\ rets[2].err = NoErr
        /\ rets[1].out # rets[2].out

\* C7's case: the top bit of the key's last byte, which only key word 7 holds.
C7_Witness ==
    /\ Len(rets) = 2
    /\ args.bit = 255
    /\ args.key = SampleBytes(1, 32)
    /\ rets[1].out # rets[2].out
    /\ Len(rets[2].out) = 16

(***************************************************************************)
(* The cipher.Block object in use.  A caller builds it from its key slice, *)
(* may write to that slice at any time, and goroutines call the object's   *)
(* methods on buffers of their own.  Encrypt and Decrypt take two steps:   *)
(* the length check and the block computed from src and the object's key,  *)
(* then the copy into dst.                                                 *)
(***************************************************************************)
NumObjBlocks == 2       \* blocks a src buffer starts with
NumObjKeys == 2         \* 32-byte keys the caller's key slice is drawn from
NumConcBlocks == 1      \* blocks a src buffer holds, goroutines running together
NumConcKeys == 1        \* keys of the object the goroutines share

SrcName == [g1 |-> "src1", g2 |-> "src2"]
DstName == [g1 |-> "dst1", g2 |-> "dst2"]

IdleCall ==
    [op |-> "none", src |-> "none", dst |-> "none", src0 |-> Nil, dst0 |-> Nil,
     keyArg |-> Nil, keyRead |-> Nil, out |-> Nil, panic |-> NoPanic, ret |-> 0]

\* A dst buffer of n bytes, none of them a byte a sample block holds there
FreshDst(n) == [j \in 1..n |-> 238]

ObjBlocks(n) == {SampleBytes(i, BlockSize) : i \in 1..n}
ObjKeys(n) == {SampleBytes(i + 1, KeySize) : i \in 1..n}

\* src buffers: a block, a block and one more byte, and one byte short
SrcBuffers(n) ==
    ObjBlocks(n)
        \cup {b \o <<t>> : b \in ObjBlocks(n), t \in {0, 255}}
        \cup {SampleBytes(2, BlockSize - 1)}

\* dst: the src slice itself (alias), or a buffer of len bytes
DstBuffers ==
    {[alias |-> FALSE, len |-> n] : n \in {BlockSize - 1, BlockSize, BlockSize + 1}}
        \cup {[alias |-> TRUE, len |-> 0]}

InitObject(keys, goroutines) ==
    /\ heap \in {[n \in {"key"} |-> k] : k \in keys}
    /\ cipher = NoCipher
    /\ newErr = NoErr
    /\ keyAtNew = Nil
    /\ pc = [g \in goroutines |-> "idle"]
    /\ call = [g \in goroutines |-> IdleCall]
    /\ args = <<>>
    /\ rets = <<>>

\* c, err := NewCipher(key)
CallNewCipher ==
    /\ cipher = NoCipher
    /\ newErr = NoErr
    /\ LET r == NewCipher(heap, "key")
       IN /\ cipher' = r.cipher
          /\ newErr' = r.err
          /\ heap' = r.heap
          /\ keyAtNew' = IF r.err = NoErr THEN heap["key"] ELSE keyAtNew
    /\ UNCHANGED <<pc, call, args, rets>>

\* After NewCipher the caller overwrites byte j of its key slice (all of the
\* byte's bits inverted)
WriteKey(idx) ==
    \E j \in idx :
        /\ cipher # NoCipher
        /\ j <= Len(heap["key"])
        /\ heap' = [heap EXCEPT !["key"][j] = 255 - @]
        /\ UNCHANGED <<cipher, newErr, keyAtNew, pc, call, args, rets>>

\* Goroutine g enters c.Encrypt(dst, src) or c.Decrypt(dst, src) on buffers it
\* has just filled
WithBuffers(h, src, srcBytes, dst, d) ==
    [n \in (DOMAIN h) \cup {src, dst} |->
        IF n = src THEN srcBytes
        ELSE IF n = dst THEN FreshDst(d.len)
        ELSE h[n]]

Enter(g, op, srcBytes, d) ==
    /\ pc[g] = "idle"
    /\ cipher # NoCipher
    /\ \E src \in {SrcName[g]}, dst \in {IF d.alias THEN SrcName[g] ELSE DstName[g]} :
       \E h \in {WithBuffers(heap, src, srcBytes, dst, d)} :
       \E r \in {IF op = "Encrypt"
                 THEN gingaCipher_Encrypt(h, cipher, dst, src)
                 ELSE gingaCipher_Decrypt(h, cipher, dst, src)} :
          /\ heap' = h
          /\ call' = [call EXCEPT ![g] =
                         [op |-> op, src |-> src, dst |-> dst,
                          src0 |-> h[src], dst0 |-> h[dst],
                          keyArg |-> h["key"], keyRead |-> h[cipher.key],
                          out |-> r.out, panic |-> r.panic, ret |-> 0]]
          /\ pc' = [pc EXCEPT ![g] = IF r.panic = NoPanic THEN "copy" ELSE "panicked"]
    /\ UNCHANGED <<cipher, newErr, keyAtNew, args, rets>>

CallEncrypt(g, srcs, dsts) ==
    \E srcBytes \in srcs, d \in dsts : Enter(g, "Encrypt", srcBytes, d)

CallDecrypt(g, srcs, dsts) ==
    \E srcBytes \in srcs, d \in dsts : Enter(g, "Decrypt", srcBytes, d)

\* copy(dst, out), and the method returns
CopyOut(g) ==
    /\ pc[g] = "copy"
    /\ heap' = [heap EXCEPT ![call[g].dst] = CopyBytes(@, call[g].out)]
    /\ pc' = [pc EXCEPT ![g] = "done"]
    /\ UNCHANGED <<cipher, newErr, keyAtNew, call, args, rets>>

\* n := c.BlockSize()
CallBlockSize(g) ==
    /\ pc[g] = "idle"
    /\ cipher # NoCipher
    /\ call' = [call EXCEPT ![g] = [IdleCall EXCEPT !.op = "BlockSize",
                                                    !.ret = gingaCipher_BlockSize(cipher)]]
    /\ pc' = [pc EXCEPT ![g] = "done"]
    /\ UNCHANGED <<heap, cipher, newErr, keyAtNew, args, rets>>

\* Goroutine g drops the buffers of its finished call and may call again
Return(g) ==
    /\ pc[g] = "done"
    /\ heap' = [n \in (DOMAIN heap) \ {call[g].src, call[g].dst} |-> heap[n]]
    /\ call' = [call EXCEPT ![g] = IdleCall]
    /\ pc' = [pc EXCEPT ![g] = "idle"]
    /\ UNCHANGED <<cipher, newErr, keyAtNew, args, rets>>

\* One goroutine, buffers of every length around the block size
InitObj == InitObject(ObjKeys(NumObjKeys) \cup {SampleBytes(3, KeySize - 1)}, {"g1"})

NextObj ==
    \/ CallNewCipher
    \/ WriteKey({1})
    \/ CallEncrypt("g1", SrcBuffers(NumObjBlocks), DstBuffers)
    \/ CallDecrypt("g1", SrcBuffers(NumObjBlocks), DstBuffers)
    \/ CopyOut("g1")
    \/ CallBlockSize("g1")
    \/ Return("g1")

SpecObj == InitObj /\ [][NextObj]_vars

\* Two goroutines on one object, each on 16-byte buffers of its own
InitConc == InitObject(ObjKeys(NumConcKeys) \cup {SampleBytes(3, KeySize + 1)}, {"g1", "g2"})

ConcDsts == {[alias |-> FALSE, len |-> BlockSize], [alias |-> TRUE, len |-> 0]}

NextConc ==
    \/ CallNewCipher
    \/ WriteKey({1, KeySize})
    \/ \E g \in {"g1", "g2"} :
          \/ CallEncrypt(g, ObjBlocks(NumConcBlocks), ConcDsts)
          \/ CallDecrypt(g, ObjBlocks(NumConcBlocks), ConcDsts)
          \/ CopyOut(g)
          \/ CallBlockSize(g)
          \/ Return(g)

SpecConc == InitConc /\ [][NextConc]_vars

(***************************************************************************)
(* Claims about the cipher.Block object.                                   *)
(***************************************************************************)
IsBlockOp(g) == call[g].op \in {"Encrypt", "Decrypt"}

\* What the package-level function of call g's name returns for the first 16
\* bytes src held when the call began, under the key NewCipher was given
FunctionalOut(g) ==
    IF call[g].op = "Encrypt"
    THEN Encrypt(SubSeq(call[g].src0, 1, 16), keyAtNew).out
    ELSE Decrypt(SubSeq(call[g].src0, 1, 16), keyAtNew).out

\* C3: once NewCipher(K) has succeeded, the key the object holds is the 32
\* bytes K held at that moment, in every state, whatever the goroutines'
\* Encrypt and Decrypt calls and the caller's later writes to K; so every call
\* reads the key of the construction.
C3_KeyNeverChanges ==
    cipher # NoCipher =>
        /\ Len(keyAtNew) = 32
        /\ heap[cipher.key] = keyAtNew
        /\ \A g \in DOMAIN pc : IsBlockOp(g) => call[g].keyRead = keyAtNew

\* C3's case: the caller has overwritten its key slice; one goroutine entered
\* Encrypt before that write and the other entered Decrypt after it, and both
\* are still to copy their block out.
C3_Witness ==
    /\ cipher # NoCipher
    /\ heap["key"] # keyAtNew
    /\ pc["g1"] = "copy"
    /\ pc["g2"] = "copy"
    /\ call["g1"].op = "Encrypt"
    /\ call["g2"].op = "Decrypt"
    /\ call["g1"].keyArg = keyAtNew
    /\ call["g2"].keyArg # keyAtNew
    /\ call["g2"].keyRead = keyAtNew

\* C4: BlockSize() returns 16, and Encrypt(dst, src) (Decrypt(dst, src)) on
\* buffers of exactly 16 bytes leaves in dst the 16 bytes the package-level
\* Encrypt(src, K) (Decrypt(src, K)) returns for the key K of NewCipher.
C4_ObjectMatchesFunctions ==
    \A g \in DOMAIN pc :
        pc[g] = "done" =>
            /\ call[g].op = "BlockSize" => call[g].ret = 16
            /\ (/\ call[g].op = "Encrypt"
                /\ Len(call[g].src0) = 16
                /\ Len(call[g].dst0) = 16)
               => heap[call[g].dst] = Encrypt(call[g].src0, keyAtNew).out
            /\ (/\ call[g].op = "Decrypt"
                /\ Len(call[g].src0) = 16
                /\ Len(call[g].dst0) = 16)
               => heap[call[g].dst] = Decrypt(call[g].src0, keyAtNew).out

\* C4's case: Encrypt has returned, on a 16-byte src and a separate 16-byte
\* dst, which now holds other bytes than before and than src.
C4_Witness ==
    /\ pc["g1"] = "done"
    /\ call["g1"].op = "Encrypt"
    /\ call["g1"].src # call["g1"].dst
    /\ Len(call["g1"].src0) = 16
    /\ Len(call["g1"].dst0) = 16
    /\ heap[call["g1"].dst] # call["g1"].dst0
    /\ heap[call["g1"].dst] # call["g1"].src0

\* C5: Encrypt(dst, src) and Decrypt(dst, src) panic whenever src or dst is
\* shorter than 16 bytes, before any byte of dst is written, and never panic
\* when both are at least 16 bytes long.
C5_ShortBuffersPanic ==
    \A g \in DOMAIN pc :
        IsBlockOp(g) =>
            IF Len(call[g].src0) < 16 \/ Len(call[g].dst0) < 16
            THEN /\ pc[g] = "panicked"
                 /\ call[g].panic = PanicNotFullBlock
                 /\ heap[call[g].dst] = call[g].dst0
            ELSE /\ pc[g] \in {"copy", "done"}
                 /\ call[g].panic = NoPanic

\* C5's case: Encrypt on a full block in src and a dst one byte short.
C5_Witness ==
    /\ pc["g1"] = "panicked"
    /\ call["g1"].op = "Encrypt"
    /\ Len(call["g1"].src0) = 16
    /\ Len(call["g1"].dst0) = 15
    /\ heap[call["g1"].dst] = call["g1"].dst0

\* C6: on buffers longer than 16 bytes the block written is the one the first
\* 16 bytes of src give, only dst[0:16] is written, and the bytes of dst from
\* index 16 on and the bytes of a src that is not dst stay as they were.
C6_OnlyFirstBlock ==
    \A g \in DOMAIN pc :
        (/\ IsBlockOp(g)
         /\ pc[g] \in {"copy", "done"}
         /\ (Len(call[g].src0) > 16 \/ Len(call[g].dst0) > 16))
        => /\ call[g].out = FunctionalOut(g)
           /\ pc[g] = "copy" => heap[call[g].dst] = call[g].dst0
           /\ pc[g] = "done" =>
                 heap[call[g].dst] =
                     FunctionalOut(g) \o SubSeq(call[g].dst0, 17, Len(call[g].dst0))
           /\ call[g].src # call[g].dst => heap[call[g].src] = call[g].src0

\* C6's case: Decrypt has returned on a 17-byte src whose first 16 bytes are
\* not its last 16 and a separate 17-byte dst, whose first byte changed.
C6_Witness ==
    /\ pc["g1"] = "done"
    /\ call["g1"].op = "Decrypt"
    /\ call["g1"].src # call["g1"].dst
    /\ Len(call["g1"].src0) = 17
    /\ SubSeq(call["g1"].src0, 1, 16) # SubSeq(call["g1"].src0, 2, 17)
    /\ Len(call["g1"].dst0) = 17
    /\ heap[call["g1"].dst][1] # call["g1"].dst0[1]
    /\ heap[call["g1"].dst][17] = call["g1"].dst0[17]

====
